---- MODULE Spec2Model ----
(***************************************************************************)
(* Vectorized string functions of be/src/vec/functions/function_string.h:  *)
(* substring, left, right, null_or_empty, concat, concat_ws and repeat,    *)
(* executed on a Block of columns.                                         *)
(*                                                                         *)
(* Row indices, column positions and byte offsets are 0-based as in the    *)
(* C++ code; a TLA+ sequence s holds element k of the C++ array at s[k+1]. *)
(* A byte is a number in 0..255; 0 is the terminator every row ends with.  *)
(***************************************************************************)
EXTENDS Integers, Sequences, FiniteSets, TLC

\* The largest number of rows of a batch.
MaxRows == 2

\* std::numeric_limits<int32_t>::max()
INT32_MAX == 2147483647

INT32_MIN == (-2147483647) - 1

----------------------------------------------------------------------------
(* Sequences *)

RECURSIVE Flatten(_)
Flatten(ss) == IF ss = <<>> THEN <<>> ELSE Head(ss) \o Flatten(Tail(ss))

Zeros(n) == [k \in 1..n |-> 0]

Max(a, b) == IF a >= b THEN a ELSE b

----------------------------------------------------------------------------
(* Columns.  One record shape for every column:                            *)
(*   type      "String" | "Int32" | "UInt8" | "Nothing"                    *)
(*   chars     ColumnString::Chars   (payloads, each followed by a 0)      *)
(*   offsets   ColumnString::Offsets (end of row k at offsets[k+1])        *)
(*   data      ColumnVector<T>::getData()                                  *)
(*   is_nullable, null_map   the ColumnNullable wrapper and its bitmap     *)
(*   is_const, rows          the ColumnConst wrapper: one stored row       *)
(*                           standing for `rows` equal rows                *)
(*   runs      the rows of a column repeat has written, in run-length      *)
(*             form: row k is runs[k+1].times copies of runs[k+1].unit.    *)
(*             chars and offsets of such a column are written out only     *)
(*             when no row is longer than RepeatWritten bytes.             *)

RECURSIVE OffsetsOf(_, _)
OffsetsOf(strs, base) ==
    IF strs = <<>> THEN <<>>
    ELSE <<base + Len(Head(strs)) + 1>>
             \o OffsetsOf(Tail(strs), base + Len(Head(strs)) + 1)

CharsOf(strs) == Flatten([k \in 1..Len(strs) |-> strs[k] \o <<0>>])

ColumnString(strs) ==
    [type |-> "String", chars |-> CharsOf(strs), offsets |-> OffsetsOf(strs, 0),
     data |-> <<>>, is_nullable |-> FALSE, null_map |-> <<>>,
     is_const |-> FALSE, rows |-> Len(strs), runs |-> <<>>]

ColumnInt32(vals) ==
    [type |-> "Int32", chars |-> <<>>, offsets |-> <<>>,
     data |-> vals, is_nullable |-> FALSE, null_map |-> <<>>,
     is_const |-> FALSE, rows |-> Len(vals), runs |-> <<>>]

ColumnUInt8(vals) ==
    [type |-> "UInt8", chars |-> <<>>, offsets |-> <<>>,
     data |-> vals, is_nullable |-> FALSE, null_map |-> <<>>,
     is_const |-> FALSE, rows |-> Len(vals), runs |-> <<>>]

\* The column a result position holds before the function has written it.
ColumnNothing ==
    [type |-> "Nothing", chars |-> <<>>, offsets |-> <<>>,
     data |-> <<>>, is_nullable |-> FALSE, null_map |-> <<>>,
     is_const |-> FALSE, rows |-> 0, runs |-> <<>>]

\* ColumnNullable::create(nested, null_map)
ColumnNullable(nested, null_map) ==
    [nested EXCEPT !.is_nullable = TRUE, !.null_map = null_map]

\* createColumnConst(rows, value): a one-row column standing for `rows` rows.
ColumnConst(one_row, rows) == [one_row EXCEPT !.is_const = TRUE, !.rows = rows]

\* nullable->getNestedColumnPtr()
getNestedColumnPtr(col) == [col EXCEPT !.is_nullable = FALSE, !.null_map = <<>>]

\* offsets[i] of a PaddedPODArray, whose element -1 reads 0.
OffsetAt(offsets, i) == IF i < 0 THEN 0 ELSE offsets[i + 1]

\* The payload of row i (terminator excluded).
RowBytes(col, i) ==
    LET b == OffsetAt(col.offsets, i - 1)
        e == OffsetAt(col.offsets, i)
    IN  SubSeq(col.chars, b + 1, e - 1)

\* Byte k of a buffer.  Past the end of the buffer the read lands in the
\* array's padding, whose content the program does not determine: pad.
ByteAt(chars, k, pad) == IF k < Len(chars) THEN chars[k + 1] ELSE pad

\* column->convertToFullColumnIfConst()
convertToFullColumnIfConst(col) ==
    IF ~col.is_const THEN col
    ELSE [col EXCEPT
            !.is_const = FALSE,
            !.chars = Flatten([k \in 1..col.rows |-> col.chars]),
            !.offsets = IF col.type = "String"
                        THEN [k \in 1..col.rows |-> k * Len(col.chars)]
                        ELSE <<>>,
            !.data = IF col.type = "String" THEN <<>>
                     ELSE [k \in 1..col.rows |-> col.data[1]],
            !.null_map = IF col.is_nullable
                         THEN [k \in 1..col.rows |-> col.null_map[1]]
                         ELSE <<>>]

\* VectorizedUtils::update_null_map(dst, src): dst[i] |= src[i]
update_null_map(dst, src) ==
    [k \in 1..Len(dst) |-> IF src[k] # 0 THEN 1 ELSE dst[k]]

\* block.getByPosition(p).column
getByPosition(blk, p) == blk[p + 1]

----------------------------------------------------------------------------
(* get_utf8_byte_length *)

get_utf8_byte_length(byte) ==
    IF byte >= 252 THEN 6
    ELSE IF byte >= 248 THEN 5
    ELSE IF byte >= 240 THEN 4
    ELSE IF byte >= 224 THEN 3
    ELSE IF byte >= 192 THEN 2
    ELSE 1

----------------------------------------------------------------------------
(* StringOP: the three pushes.  st is the output under construction:       *)
(* res_chars, res_offsets (resized to the row count beforehand), null_map. *)

push_empty_string(index, st) ==
    [st EXCEPT !.res_chars = Append(@, 0),
               !.res_offsets[index + 1] = Len(st.res_chars) + 1]

push_null_string(index, st) ==
    push_empty_string(index, [st EXCEPT !.null_map[index + 1] = 1])

\* push_value_string without the terminator after the payload.
push_value_string_Unterminated(string_value, index, st) ==
    [st EXCEPT !.res_chars = @ \o string_value,
               !.res_offsets[index + 1] = Len(st.res_chars) + Len(string_value)]

push_value_string(string_value, index, st) ==
    [st EXCEPT !.res_chars = (@ \o string_value) \o <<0>>,
               !.res_offsets[index + 1] =
                    Len(st.res_chars) + Len(string_value) + 1]

----------------------------------------------------------------------------
(* 32-bit int arithmetic converted to size_t, as the comparisons of        *)
(* FunctionSubstring::vector do it.  A negative int converted to size_t is *)
(* larger than every container size.  A signed sum that leaves the 32-bit  *)
(* range either wraps to a negative int or is widened to 64 bits: as a     *)
(* size_t it is larger than every container size in both builds.           *)

SumOverflows(a, b) ==
    \/ a > 0 /\ b > INT32_MAX - a
    \/ a < 0 /\ b < INT32_MIN - a

\* (size_t) n > (int) a + b
SizeGtSum(n, a, b) ==
    IF SumOverflows(a, b) THEN FALSE
    ELSE IF a + b < 0 THEN FALSE
    ELSE n > a + b

\* (int) a + b <= (size_t) n
SumLeSize(a, b, n) ==
    IF SumOverflows(a, b) THEN FALSE
    ELSE IF a + b < 0 THEN FALSE
    ELSE a + b <= n

\* (int) a > (size_t) n
IntGtSize(a, n) == a < 0 \/ a > n

----------------------------------------------------------------------------
(* FunctionSubstring::vector, one row.                                     *)
(* nd is what the program does not determine: nd.pad, the byte read past   *)
(* the end of the chars buffer, and nd.junk, the value a read of           *)
(* index[-1] returns.                                                      *)
(* Every intermediate value of the C++ function is a parameter of the      *)
(* operator that models the statements after it.                           *)

\* The position the scan loop decodes its lead byte at: raw_str[i], with i
\* the row index of the batch (line 155), whatever the loop's own j is.
ScanByteOffset(base, i, j) == base + i

\* The scan loop of lines 154-160.
RECURSIVE ScanIndex(_, _, _, _, _, _, _, _, _)
ScanIndex(j, index, chars, base, i, str_size, start, len, pad) ==
    IF j >= str_size THEN index
    ELSE IF start > 0 /\ SizeGtSum(Len(index) + 1, start, len)
    THEN Append(index, j)
    ELSE ScanIndex(j + get_utf8_byte_length(
                           ByteAt(chars, ScanByteOffset(base, i, j), pad)),
                   Append(index, j), chars, base, i, str_size, start, len, pad)

\* Whether the scan read a byte past the end of chars.
ReadsPad(chars, base, i, index) ==
    \E k \in 1..Len(index) : ScanByteOffset(base, i, index[k]) >= Len(chars)

\* The outcome for one row: kind "null" | "empty" | "value"; for a value the
\* span [byte_pos, byte_pos + fixed_len) of the row; index, the character
\* index list; oob, whether index was read outside [0, index.size());
\* read_pad, whether the scan read past the end of chars.
RowOutcome(kind, byte_pos, fixed_len, index, oob, read_pad, str_size, base) ==
    [kind |-> kind, byte_pos |-> byte_pos, fixed_len |-> fixed_len,
     index |-> index, oob |-> oob, read_pad |-> read_pad,
     str_size |-> str_size, base |-> base]

\* Lines 177-183: a value if the span is positive, else the empty string.
ResolveSpan(index, byte_pos, fixed_len, oob, read_pad, str_size, base) ==
    RowOutcome(IF byte_pos <= str_size /\ fixed_len > 0 THEN "value" ELSE "empty",
               byte_pos, fixed_len, index, oob, read_pad, str_size, base)

\* ResolveLen with the remainder of the row taken one byte short.
ResolveLen_OneShort(index, fixed_pos, byte_pos, len, oob, read_pad, str_size, base) ==
    ResolveSpan(index, byte_pos,
                IF SumLeSize(fixed_pos, len, Len(index))
                THEN index[fixed_pos + len] - byte_pos
                ELSE str_size - byte_pos - 1,
                oob, read_pad, str_size, base)

\* Lines 172-175: the byte length of the span.
ResolveLen(index, fixed_pos, byte_pos, len, oob, read_pad, str_size, base) ==
    ResolveSpan(index, byte_pos,
                IF SumLeSize(fixed_pos, len, Len(index))
                THEN index[fixed_pos + len] - byte_pos
                ELSE str_size - byte_pos,
                oob, read_pad, str_size, base)

\* Lines 166-171: NULL past the last character, else byte_pos = index[fixed_pos - 1].
ResolvePos(index, fixed_pos, len, junk, read_pad, str_size, base) ==
    IF IntGtSize(fixed_pos, Len(index))
    THEN RowOutcome("null", 0, 0, index, FALSE, read_pad, str_size, base)
    ELSE ResolveLen(index, fixed_pos,
                    IF fixed_pos - 1 < 0 THEN junk ELSE index[fixed_pos],
                    len, fixed_pos - 1 < 0, read_pad, str_size, base)

\* Lines 162-165: fixed_pos, counted from the end when start is negative.
Resolve(index, chars, start, len, i, nd, str_size, base) ==
    ResolvePos(index,
               IF start < 0 THEN Len(index) + start + 1 ELSE start,
               len, nd.junk, ReadsPad(chars, base, i, index), str_size, base)

\* SubstringRowAt with the empty-string rule tested before the NULL rule.
SubstringRowAt_EmptyFirst(chars, start, len, i, nd, str_size, base) ==
    IF len <= 0 \/ str_size = 0 \/ start = 0
    THEN RowOutcome("empty", 0, 0, <<>>, FALSE, FALSE, str_size, base)
    ELSE IF start > str_size
    THEN RowOutcome("null", 0, 0, <<>>, FALSE, FALSE, str_size, base)
    ELSE Resolve(ScanIndex(0, <<>>, chars, base, i, str_size, start, len, nd.pad),
                 chars, start, len, i, nd, str_size, base)

\* SubstringRowAt with the empty-string rule as its comment words it
\* (len < 0 instead of len <= 0).
SubstringRowAt_LenBelowZero(chars, start, len, i, nd, str_size, base) ==
    IF start > str_size
    THEN RowOutcome("null", 0, 0, <<>>, FALSE, FALSE, str_size, base)
    ELSE IF len < 0 \/ str_size = 0 \/ start = 0
    THEN RowOutcome("empty", 0, 0, <<>>, FALSE, FALSE, str_size, base)
    ELSE Resolve(ScanIndex(0, <<>>, chars, base, i, str_size, start, len, nd.pad),
                 chars, start, len, i, nd, str_size, base)

\* Lines 141-160: the two early exits, then the scan.
SubstringRowAt(chars, start, len, i, nd, str_size, base) ==
    IF start > str_size
    THEN RowOutcome("null", 0, 0, <<>>, FALSE, FALSE, str_size, base)
    ELSE IF len <= 0 \/ str_size = 0 \/ start = 0
    THEN RowOutcome("empty", 0, 0, <<>>, FALSE, FALSE, str_size, base)
    ELSE Resolve(ScanIndex(0, <<>>, chars, base, i, str_size, start, len, nd.pad),
                 chars, start, len, i, nd, str_size, base)

\* Lines 139-140: raw_str and str_size of row i.
SubstringRow(chars, offsets, start, len, i, nd) ==
    SubstringRowAt(chars, start, len, i, nd,
                   OffsetAt(offsets, i) - OffsetAt(offsets, i - 1) - 1,
                   OffsetAt(offsets, i - 1))

\* The bytes push_value_string copies for a "value" outcome.
SpanBytes(chars, r, nd) ==
    [k \in 1..r.fixed_len |-> ByteAt(chars, r.base + r.byte_pos + k - 1, nd.pad)]

\* The push that ends the iteration for row i.
VectorPush(r, chars, i, nd, st) ==
    IF r.kind = "null" THEN push_null_string(i, st)
    ELSE IF r.kind = "empty" THEN push_empty_string(i, st)
    ELSE push_value_string(SpanBytes(chars, r, nd), i, st)

VectorNote(r, chars, i, nd, st) ==
    VectorPush(r, chars, i, nd,
               [st EXCEPT !.oob = @ \/ r.oob, !.read_pad = @ \/ r.read_pad])

\* One iteration of the row loop of lines 138-184.
VectorStep(chars, offsets, start, len, i, nd, st) ==
    VectorNote(SubstringRow(chars, offsets, start[i + 1], len[i + 1], i, nd),
               chars, i, nd, st)

RECURSIVE VectorLoop(_, _, _, _, _, _, _)
VectorLoop(chars, offsets, start, len, i, nd, st) ==
    IF i >= Len(offsets) THEN st
    ELSE VectorLoop(chars, offsets, start, len, i + 1, nd,
                    VectorStep(chars, offsets, start, len, i, nd, st))

\* FunctionSubstring::vector
vector(chars, offsets, start, len, null_map, nd) ==
    VectorLoop(chars, offsets, start, len, 0, nd,
               [res_chars |-> <<>>, res_offsets |-> Zeros(Len(offsets)),
                null_map |-> null_map, oob |-> FALSE, read_pad |-> FALSE])

\* The loop body of lines 105-110 on a full column: the column with its
\* nullable wrapper removed, and the null map with the wrapper's OR-ed in.
NormalizeFull(full, null_map) ==
    IF full.is_nullable
    THEN [column |-> getNestedColumnPtr(full),
          null_map |-> update_null_map(null_map, full.null_map)]
    ELSE [column |-> full, null_map |-> null_map]

NormalizeArg(col, null_map) ==
    NormalizeFull(convertToFullColumnIfConst(col), null_map)

\* The ColumnString the function built.
ResultString(res_chars, res_offsets, n) ==
    [ColumnNothing EXCEPT !.type = "String", !.chars = res_chars,
                          !.offsets = res_offsets, !.rows = n]

\* Lines 124-125: the result column replaces the column at `result`.
SubstringWrite(blk, result, input_rows_count, out) ==
    [block |-> [blk EXCEPT ![result + 1] =
                   ColumnNullable(ResultString(out.res_chars, out.res_offsets,
                                               input_rows_count),
                                  out.null_map)],
     oob |-> out.oob, read_pad |-> out.read_pad]

\* Lines 113-122 on the three normalized arguments.
SubstringOnArgs(blk, result, input_rows_count, nd, a0, a1, a2) ==
    SubstringWrite(blk, result, input_rows_count,
                   vector(a0.column.chars, a0.column.offsets, a1.column.data,
                          a2.column.data, a2.null_map, nd))

SubstringArg2(blk, arguments, result, input_rows_count, nd, a0, a1) ==
    SubstringOnArgs(blk, result, input_rows_count, nd, a0, a1,
                    NormalizeArg(getByPosition(blk, arguments[3]), a1.null_map))

SubstringArg1(blk, arguments, result, input_rows_count, nd, a0) ==
    SubstringArg2(blk, arguments, result, input_rows_count, nd, a0,
                  NormalizeArg(getByPosition(blk, arguments[2]), a0.null_map))

\* FunctionSubstring::substring_execute: the block after the call, and what
\* the resolver did (oob, read_pad).
substring_execute(blk, arguments, result, input_rows_count, nd) ==
    SubstringArg1(blk, arguments, result, input_rows_count, nd,
                  NormalizeArg(getByPosition(blk, arguments[1]),
                               Zeros(input_rows_count)))

----------------------------------------------------------------------------
(* FunctionLeft::executeImpl and FunctionRight::executeImpl *)

Ones(n) == [k \in 1..n |-> 1]

\* The value of the constant column FunctionLeft inserts (toField(1)).
LeftConstValue == 1

\* LeftArguments with the inserted column and the count column exchanged.
LeftArguments_Exchanged(arguments, num_columns_without_result) ==
    <<arguments[1], arguments[2], num_columns_without_result>>

\* Lines 202-205.
LeftArguments(arguments, num_columns_without_result) ==
    <<arguments[1], num_columns_without_result, arguments[2]>>

FunctionLeft(blk, arguments, result, input_rows_count, nd) ==
    substring_execute(
        Append(blk, convertToFullColumnIfConst(
                        ColumnConst(ColumnInt32(<<LeftConstValue>>), input_rows_count))),
        LeftArguments(arguments, Len(blk)), result, input_rows_count, nd)

\* The column FunctionRight reads: full, and the nested column if nullable
\* (lines 232-243); the null map is left to substring_execute.
RightNested(full) == IF full.is_nullable THEN getNestedColumnPtr(full) ELSE full
RightArg(col) == RightNested(convertToFullColumnIfConst(col))

\* Lines 245-247: strlen_data[i] = str_offset[i] - str_offset[i - 1] - 1
RightStrlen(str_offset, input_rows_count) ==
    [k \in 1..input_rows_count |->
        OffsetAt(str_offset, k - 1) - OffsetAt(str_offset, k - 2) - 1]

\* RightIndex without the clamp to the byte length.
RightIndex_Unclamped(pos_data, strlen_data, input_rows_count) ==
    [k \in 1..input_rows_count |-> -pos_data[k]]

\* Lines 249-251: index_data[i] = max(-pos_data[i], -strlen_data[i])
RightIndex(pos_data, strlen_data, input_rows_count) ==
    [k \in 1..input_rows_count |-> Max(-pos_data[k], -strlen_data[k])]

\* Lines 253-260.
RightOnParams(blk, arguments, result, input_rows_count, nd, index_data, strlen_data) ==
    substring_execute(
        Append(Append(blk, ColumnInt32(index_data)), ColumnInt32(strlen_data)),
        <<arguments[1], Len(blk), Len(blk) + 1>>, result, input_rows_count, nd)

RightOnStrlen(blk, arguments, result, input_rows_count, nd, pos_data, strlen_data) ==
    RightOnParams(blk, arguments, result, input_rows_count, nd,
                  RightIndex(pos_data, strlen_data, input_rows_count), strlen_data)

FunctionRight(blk, arguments, result, input_rows_count, nd) ==
    RightOnStrlen(blk, arguments, result, input_rows_count, nd,
                  RightArg(getByPosition(blk, arguments[2])).data,
                  RightStrlen(RightArg(getByPosition(blk, arguments[1])).offsets,
                              input_rows_count))

----------------------------------------------------------------------------
(* FunctionStringConcat::executeImpl *)

\* The largest number of arguments of a variadic call.
MaxArgs == 4

\* size = offsets[i] - offsets[i - 1] - 1
RowSize(col, i) == OffsetAt(col.offsets, i) - OffsetAt(col.offsets, i - 1) - 1

\* Lines 337-347: every argument made full and stripped of its nullable
\* wrapper, the wrappers' null maps OR-ed into null_map.
RECURSIVE ConcatNormalize(_, _, _, _, _)
RECURSIVE ConcatNormalizeStep(_, _, _, _, _)
ConcatNormalize(blk, arguments, i, cols, null_map) ==
    IF i >= Len(arguments) THEN [cols |-> cols, null_map |-> null_map]
    ELSE ConcatNormalizeStep(blk, arguments, i, cols,
             NormalizeArg(getByPosition(blk, arguments[i + 1]), null_map))

ConcatNormalizeStep(blk, arguments, i, cols, a) ==
    ConcatNormalize(blk, arguments, i + 1, Append(cols, a.column), a.null_map)

\* Lines 355-364: the payload bytes of all arguments, and one terminator
\* per row.
RECURSIVE ConcatReserve(_, _, _, _, _)
ConcatReserve(cols, i, j, input_rows_count, res_reserve_size) ==
    IF i >= Len(cols) THEN res_reserve_size + input_rows_count
    ELSE IF j >= input_rows_count
    THEN ConcatReserve(cols, i + 1, 0, input_rows_count, res_reserve_size)
    ELSE ConcatReserve(cols, i, j + 1, input_rows_count,
                       res_reserve_size + RowSize(cols[i + 1], j))

\* memcpy(&res_data[at], src, Len(src)); oob if it writes past res_data.
Memcpy(st, at, src) ==
    [st EXCEPT
        !.res_data = [k \in 1..Len(st.res_data) |->
                         IF at < k /\ k <= at + Len(src)
                         THEN src[k - at] ELSE st.res_data[k]],
        !.oob = @ \/ at + Len(src) > Len(st.res_data)]

\* Lines 379-382: the terminator, and the row's end offset.
ConcatTerminate(st, i, current_length) ==
    [Memcpy(st, OffsetAt(st.res_offset, i - 1) + current_length, <<0>>)
        EXCEPT !.res_offset[i + 1] =
                   OffsetAt(st.res_offset, i - 1) + current_length + 1]

\* ConcatArgAt visiting the arguments from the last to the first.
ConcatArgAt_Backwards(cols, j) == cols[Len(cols) - j]

\* The order the inner loop of lines 370-378 visits the arguments in.
ConcatArgAt(cols, j) == cols[j + 1]

\* Lines 370-378: row i, argument by argument.
RECURSIVE ConcatCopy(_, _, _, _, _)
ConcatCopy(st, i, j, current_length, cols) ==
    IF j >= Len(cols) THEN ConcatTerminate(st, i, current_length)
    ELSE ConcatCopy(Memcpy(st, OffsetAt(st.res_offset, i - 1) + current_length,
                           RowBytes(ConcatArgAt(cols, j), i)),
                    i, j + 1, current_length + RowSize(ConcatArgAt(cols, j), i), cols)

\* Lines 368-383: the row loop.
RECURSIVE ConcatRows(_, _, _, _)
ConcatRows(st, i, input_rows_count, cols) ==
    IF i >= input_rows_count THEN st
    ELSE ConcatRows(ConcatCopy(st, i, 0, 0, cols), i + 1, input_rows_count, cols)

\* A byte of res_data that resize() allotted and nothing has written.
Unwritten == -1

\* Lines 349-366: the output buffers before the row loop.
ConcatBuffers(input_rows_count, res_reserve_size) ==
    [res_data |-> [k \in 1..res_reserve_size |-> Unwritten],
     res_offset |-> Zeros(input_rows_count), oob |-> FALSE]

\* Lines 385-386.
ConcatWrite(blk, result, input_rows_count, null_map, st) ==
    [block |-> [blk EXCEPT ![result + 1] =
                   ColumnNullable(ResultString(st.res_data, st.res_offset,
                                               input_rows_count), null_map)],
     oob |-> st.oob, read_pad |-> FALSE]

ConcatOnArgs(blk, result, input_rows_count, a) ==
    ConcatWrite(blk, result, input_rows_count, a.null_map,
                ConcatRows(ConcatBuffers(input_rows_count,
                                         ConcatReserve(a.cols, 0, 0, input_rows_count, 0)),
                           0, input_rows_count, a.cols))

\* makeNullable with every row of the new null map set.
makeNullable_AllNull(col) ==
    ColumnNullable(col, Ones(IF col.is_const THEN 1 ELSE col.rows))

\* makeNullable(column): the column under an all-zero null map.
makeNullable(col) ==
    ColumnNullable(col, Zeros(IF col.is_const THEN 1 ELSE col.rows))

\* Lines 320-328: one argument is passed through, made nullable.
ConcatSingle(blk, result, col) ==
    [block |-> [blk EXCEPT ![result + 1] =
                   IF col.is_nullable THEN col ELSE makeNullable(col)],
     oob |-> FALSE, read_pad |-> FALSE]

FunctionStringConcat(blk, arguments, result, input_rows_count) ==
    IF Len(arguments) = 1
    THEN ConcatSingle(blk, result, getByPosition(blk, arguments[1]))
    ELSE ConcatOnArgs(blk, result, input_rows_count,
                      ConcatNormalize(blk, arguments, 0, <<>>,
                                      Zeros(input_rows_count)))

----------------------------------------------------------------------------
(* FunctionStringConcatWs::executeImpl *)

\* ColumnPtr argument_columns[3];
ConcatWsCapacity == 3

\* Lines 425-430 on a full column: the column without its wrapper, and the
\* wrapper's null map or the all-zero const_null_map.
ConcatWsFull(full, input_rows_count) ==
    IF full.is_nullable
    THEN [column |-> getNestedColumnPtr(full), null_map |-> full.null_map]
    ELSE [column |-> full, null_map |-> Zeros(input_rows_count)]

\* Lines 422-434: argument i is stored into argument_columns[i]; oob when
\* i is outside the array.
RECURSIVE ConcatWsNormalize(_, _, _, _, _)
RECURSIVE ConcatWsNormalizeStep(_, _, _, _, _, _)
ConcatWsNormalize(blk, arguments, i, input_rows_count, acc) ==
    IF i >= Len(arguments) THEN acc
    ELSE ConcatWsNormalizeStep(blk, arguments, i, input_rows_count, acc,
             ConcatWsFull(convertToFullColumnIfConst(
                              getByPosition(blk, arguments[i + 1])),
                          input_rows_count))

ConcatWsNormalizeStep(blk, arguments, i, input_rows_count, acc, a) ==
    ConcatWsNormalize(blk, arguments, i + 1, input_rows_count,
        [cols |-> Append(acc.cols, a.column),
         null_list |-> Append(acc.null_list, a.null_map),
         oob |-> acc.oob \/ i >= ConcatWsCapacity])

\* fmt::join(views, seq)
RECURSIVE Join(_, _)
Join(views, seq) ==
    IF views = <<>> THEN <<>>
    ELSE IF Len(views) = 1 THEN views[1]
    ELSE (views[1] \o seq) \o Join(Tail(views), seq)

\* Whether the loop of lines 460-470 takes argument j of row i as a view.
ConcatWsKeeps(a, i, j) == a.null_list[j + 1][i + 1] = 0

\* Lines 460-470: the payloads of the non-null arguments 1.. of row i.
RECURSIVE ConcatWsViews(_, _, _, _)
ConcatWsViews(a, i, j, views) ==
    IF j >= Len(a.cols) THEN views
    ELSE ConcatWsViews(a, i, j + 1,
                       IF ConcatWsKeeps(a, i, j)
                       THEN Append(views, RowBytes(a.cols[j + 1], i))
                       ELSE views)

\* Lines 444-473: one row.
ConcatWsRow(a, i, st) ==
    IF a.null_list[1][i + 1] # 0
    THEN push_empty_string(i, st)
    ELSE push_value_string(Join(ConcatWsViews(a, i, 1, <<>>),
                                RowBytes(a.cols[1], i)), i, st)

RECURSIVE ConcatWsRows(_, _, _, _)
ConcatWsRows(a, i, input_rows_count, st) ==
    IF i >= input_rows_count THEN st
    ELSE ConcatWsRows(a, i + 1, input_rows_count, ConcatWsRow(a, i, st))

\* Lines 475-476.
ConcatWsWrite(blk, result, input_rows_count, a, st) ==
    [block |-> [blk EXCEPT ![result + 1] =
                   ColumnNullable(ResultString(st.res_chars, st.res_offsets,
                                               input_rows_count), st.null_map)],
     oob |-> a.oob, read_pad |-> FALSE]

\* Lines 436-473 on the normalized arguments.
ConcatWsOnArgs(blk, result, input_rows_count, a) ==
    ConcatWsWrite(blk, result, input_rows_count, a,
        ConcatWsRows(a, 0, input_rows_count,
            [res_chars |-> <<>>, res_offsets |-> Zeros(input_rows_count),
             null_map |-> update_null_map(Zeros(input_rows_count), a.null_list[1])]))

FunctionStringConcatWs(blk, arguments, result, input_rows_count) ==
    ConcatWsOnArgs(blk, result, input_rows_count,
        ConcatWsNormalize(blk, arguments, 0, input_rows_count,
                          [cols |-> <<>>, null_list |-> <<>>, oob |-> FALSE]))

----------------------------------------------------------------------------
(* FunctionStringRepeat *)

\* The longest row the model writes out byte by byte.
RepeatWritten == 12

\* size * repeat <= RepeatWritten
RepeatFits(size, repeat) ==
    repeat <= 0 \/ size = 0 \/ repeat <= RepeatWritten \div size

\* static_cast<int64_t>(size) * repeat > std::numeric_limits<int32_t>::max()
RepeatExceeds(size, repeat) ==
    size > 0 /\ repeat > 0 /\ repeat > INT32_MAX \div size

\* Lines 527-529 with the buffer written out: `repeat` appends of the row.
\* The appends of an empty row leave the buffer as it is, however many.
RECURSIVE RepeatAppend(_, _, _, _)
RepeatAppend(buffer, raw_str, i, repeat) ==
    IF i >= repeat \/ raw_str = <<>> THEN buffer
    ELSE RepeatAppend(buffer \o raw_str, raw_str, i + 1, repeat)

\* How many times the loop of lines 527-529 appends the row.
RepeatTimes(repeat) == Max(repeat, 0)

\* Lines 521-530 for row i: the DCHECK of line 526 noted in dcheck, the
\* buffer pushed as the row's value.
RepeatPush(i, raw_str, size, repeat, st) ==
    [(IF st.written /\ RepeatFits(size, repeat)
      THEN push_value_string(RepeatAppend(<<>>, raw_str, 0, repeat), i, st)
      ELSE [st EXCEPT !.written = FALSE, !.res_chars = <<>>,
                      !.res_offsets = <<>>])
        EXCEPT !.runs = Append(@, [unit |-> raw_str, times |-> RepeatTimes(repeat)]),
               !.dcheck = @ \/ RepeatExceeds(size, repeat)]

RECURSIVE RepeatRows(_, _, _, _)
RepeatRows(col1, col2, i, st) ==
    IF i >= Len(col1.offsets) THEN st
    ELSE RepeatRows(col1, col2, i + 1,
                    RepeatPush(i, RowBytes(col1, i), RowSize(col1, i),
                               col2.data[i + 1], st))

\* FunctionStringRepeat::vector_vector
vector_vector(col1, col2) ==
    RepeatRows(col1, col2, 0,
               [res_chars |-> <<>>, res_offsets |-> Zeros(Len(col1.offsets)),
                runs |-> <<>>, written |-> TRUE, dcheck |-> FALSE])

\* checkAndGetColumn<T>(column): the column is a T itself, wrapped in nothing.
checkAndGetColumn(type, col) == col.type = type /\ ~col.is_nullable /\ ~col.is_const

\* Lines 505-506.
RepeatWrite(blk, result, st) ==
    [block |-> [blk EXCEPT ![result + 1] =
                   [ResultString(st.res_chars, st.res_offsets, Len(st.runs))
                        EXCEPT !.runs = st.runs]],
     oob |-> FALSE, read_pad |-> FALSE, dcheck |-> st.dcheck, status |-> "OK"]

\* static constexpr auto name = "repeat";
RepeatName == "repeat"

\* RepeatNotSupported with a message that does not say which function.
RepeatNotSupported_Anonymous(blk) ==
    [block |-> blk, oob |-> FALSE, read_pad |-> FALSE, dcheck |-> FALSE,
     status |-> "RuntimeError", message |-> "not support"]

\* Line 510: Status::RuntimeError(fmt::format("not support {}", getName()))
RepeatNotSupported(blk) ==
    [block |-> blk, oob |-> FALSE, read_pad |-> FALSE, dcheck |-> FALSE,
     status |-> "RuntimeError", message |-> "not support " \o RepeatName]

RepeatOnArgs(blk, result, col1, col2) ==
    IF checkAndGetColumn("String", col1) /\ checkAndGetColumn("Int32", col2)
    THEN RepeatWrite(blk, result, vector_vector(col1, col2))
    ELSE RepeatNotSupported(blk)

\* FunctionStringRepeat::executeImpl
FunctionStringRepeat(blk, arguments, result) ==
    RepeatOnArgs(blk, result,
                 convertToFullColumnIfConst(getByPosition(blk, arguments[1])),
                 convertToFullColumnIfConst(getByPosition(blk, arguments[2])))

----------------------------------------------------------------------------
(* FunctionNullOrEmpty::executeImpl *)

\* NullOrEmptyColumn leaving the wrapper's null map out of res_map.
NullOrEmptyColumn_NestedOnly(column, res_map) ==
    [column |-> getNestedColumnPtr(column), res_map |-> res_map]

\* Lines 282-286: the column without its nullable wrapper, the wrapper's
\* null map OR-ed into res_map.
NullOrEmptyColumn(column, res_map) ==
    IF column.is_nullable
    THEN [column |-> getNestedColumnPtr(column),
          res_map |-> update_null_map(res_map, column.null_map)]
    ELSE [column |-> column, res_map |-> res_map]

\* Lines 291-294: res_map_data[i] |= (size == 0)
RECURSIVE NullOrEmptyRows(_, _, _, _)
NullOrEmptyRows(str_col, i, input_rows_count, res_map_data) ==
    IF i >= input_rows_count THEN res_map_data
    ELSE NullOrEmptyRows(str_col, i + 1, input_rows_count,
             [res_map_data EXCEPT ![i + 1] =
                 IF RowSize(str_col, i) = 0 THEN 1 ELSE @])

\* Lines 296-297.
NullOrEmptyWrite(blk, result, res_map_data) ==
    [block |-> [blk EXCEPT ![result + 1] = ColumnUInt8(res_map_data)],
     oob |-> FALSE, read_pad |-> FALSE]

NullOrEmptyOnColumn(blk, result, input_rows_count, a) ==
    NullOrEmptyWrite(blk, result,
        NullOrEmptyRows(a.column, 0, input_rows_count, a.res_map))

FunctionNullOrEmpty(blk, arguments, result, input_rows_count) ==
    NullOrEmptyOnColumn(blk, result, input_rows_count,
        NullOrEmptyColumn(getByPosition(blk, arguments[1]),
                          Zeros(input_rows_count)))

----------------------------------------------------------------------------
(* The state: one function invoked on one batch, once ("done") and then,   *)
(* on the batch as the first invocation left it, once more ("again").      *)

VARIABLES
    fn,                 \* the function the evaluator invokes
    block,              \* the Block: its columns, by position
    arguments,          \* the positions of the input columns
    result,             \* the position of the result column
    input_rows_count,   \* the number of rows of the batch
    pc,                 \* "ready" before executeImpl, "done" after it
    status,             \* "none", then what executeImpl ended with
    oob,                \* whether a container was accessed out of its range
    nd,                 \* the undetermined values the invocation read
    message             \* the message of the Status executeImpl returned

vars == <<fn, block, arguments, result, input_rows_count, pc, status, oob, nd,
          message>>

\* Bytes: 'a' and the three bytes of one 3-byte UTF-8 character.
ByteA == <<97>>
Char3 == <<228, 184, 173>>

\* The row payloads of the string column of substring, left and right.
Strings ==
    { <<>>, ByteA, Char3, ByteA \o Char3, Char3 \o Char3 \o Char3 }

PosValues == { INT32_MIN, -4, -3, -2, -1, 0, 1, 2, 3, 4, 10 }
LenValues == { -1, 0, 1, 2, 3, 4, 9, INT32_MAX }
NValues   == { -1, 0, 1, 2, 3, 4, 9, 10, INT32_MAX }

\* What a read past the chars buffer may find, and what index[-1] may hold.
PadBytes   == { 0, 228 }
JunkValues == { 0, 1, 33 }

RowCounts == 1..MaxRows

\* The null maps of a nullable column of n rows: no null row, or one.
OneHot(n, r) == [k \in 1..n |-> IF k = r THEN 1 ELSE 0]

\* An Int32 argument holding v on every row: a constant column (a literal),
\* a full column, or a nullable full column with every row null.
IntLiteral(v, n) == ColumnConst(ColumnInt32(<<v>>), n)
IntFull(v, n) == ColumnInt32([k \in 1..n |-> v])
IntNull(v, n) == ColumnNullable(IntFull(v, n), Ones(n))

\* The batch the evaluator hands over: the argument columns at positions
\* 0.., and the (unwritten) result column after them.
Ready(f, args, n) ==
    /\ fn = f
    /\ block = Append(args, ColumnNothing)
    /\ arguments = [k \in 1..Len(args) |-> k - 1]
    /\ result = Len(args)
    /\ input_rows_count = n
    /\ pc = "ready"
    /\ status = "none"
    /\ oob = FALSE
    /\ nd = [pad |-> 0, junk |-> 0]
    /\ message = ""

\* One substring call on n rows: one argument column nullable, or all three.
InitSubstringCall(n) ==
    \E strs \in [1..n -> Strings] :
        \/ \E r \in 1..n :
              Ready("substring",
                    <<ColumnNullable(ColumnString(strs), OneHot(n, r)),
                      ColumnNullable(IntFull(1, n), OneHot(n, n)),
                      ColumnNullable(IntFull(1, n), OneHot(n, 1))>>, n)
        \/ \E p \in PosValues, l \in LenValues :
              Ready("substring",
                    <<ColumnString(strs), IntLiteral(p, n), IntLiteral(l, n)>>, n)
        \/ \E r \in 0..n, p \in {-1, 1, 10}, l \in {0, 1} :
              Ready("substring",
                    <<ColumnNullable(ColumnString(strs), OneHot(n, r)),
                      IntLiteral(p, n), IntLiteral(l, n)>>, n)
        \/ \E l \in {0, 1} :
              Ready("substring",
                    <<ColumnString(strs), IntNull(1, n), IntLiteral(l, n)>>, n)
        \/ \E p \in {1, 10} :
              Ready("substring",
                    <<ColumnString(strs), IntLiteral(p, n), IntNull(1, n)>>, n)

\* One left or right call on n rows.
InitLeftRightCall(f, n) ==
    \E strs \in [1..n -> Strings] :
        \/ \E r \in 1..n :
              Ready(f, <<ColumnNullable(ColumnString(strs), OneHot(n, r)),
                         ColumnNullable(IntFull(2, n), OneHot(n, n))>>, n)
        \/ \E v \in NValues :
              Ready(f, <<ColumnString(strs), IntFull(v, n)>>, n)
        \/ \E r \in 0..n, v \in {0, 2} :
              Ready(f, <<ColumnNullable(ColumnString(strs), OneHot(n, r)),
                         IntLiteral(v, n)>>, n)
        \/ \E v \in {0, 2} :
              Ready(f, <<ColumnString(strs), IntNull(v, n)>>, n)

InitSubstring ==
    \E n \in RowCounts :
        \/ InitSubstringCall(n)
        \/ InitLeftRightCall("left", n)
        \/ InitLeftRightCall("right", n)

\* The evaluator may invoke f: on the batch it has built, or once more on
\* the batch a returned invocation has left.
Callable(f) ==
    /\ fn = f
    /\ \/ pc = "ready"
       \/ pc = "done" /\ status \in {"OK", "RuntimeError"}

\* The invocation ends: the block as the function left it, and the
\* undetermined values it actually read.
Finish(r, st, choice) ==
    /\ block' = r.block
    /\ oob' = r.oob
    /\ nd' = [pad  |-> IF r.read_pad THEN choice.pad ELSE 0,
              junk |-> IF r.oob THEN choice.junk ELSE 0]
    /\ status' = st
    /\ message' = IF "message" \in DOMAIN r THEN r.message ELSE ""
    /\ pc' = IF pc = "ready" THEN "done" ELSE "again"
    /\ UNCHANGED <<fn, arguments, result, input_rows_count>>

\* The undetermined values an invocation may meet.  A run that read none
\* of them has one outcome.
NoChoice == [pad |-> 0, junk |-> 0]
Choices(r0) ==
    IF r0.read_pad THEN [pad : PadBytes, junk : JunkValues]
    ELSE IF r0.oob THEN [pad : {0}, junk : JunkValues]
    ELSE {NoChoice}

SubstringOutcome(c) ==
    substring_execute(block, arguments, result, input_rows_count, c)

\* FunctionSubstring::executeImpl
Substring ==
    /\ Callable("substring")
    /\ \E c \in Choices(SubstringOutcome(NoChoice)) :
          Finish(SubstringOutcome(c), "OK", c)

LeftOutcome(c) == FunctionLeft(block, arguments, result, input_rows_count, c)

\* FunctionLeft::executeImpl
Left ==
    /\ Callable("left")
    /\ \E c \in Choices(LeftOutcome(NoChoice)) :
          Finish(LeftOutcome(c), "OK", c)

RightOutcome(c) == FunctionRight(block, arguments, result, input_rows_count, c)

\* FunctionRight::executeImpl
Right ==
    /\ Callable("right")
    /\ \E c \in Choices(RightOutcome(NoChoice)) :
          Finish(RightOutcome(c), "OK", c)

NextSubstring == Substring \/ Left \/ Right

SpecSubstring == InitSubstring /\ [][NextSubstring]_vars

----------------------------------------------------------------------------
(* concat and concat_ws on a batch. *)

ByteB == <<98, 99>>
ByteD == <<100>>
ByteE == <<101>>
Comma == <<44>>

\* The string columns a concat argument is drawn from, on n rows: a
\* literal, a plain column with empty rows, nullable columns whose first or
\* last row is null (over a non-empty and over an empty payload), and a
\* nullable column without a null row.
ConcatColumns(n) ==
    { ColumnConst(ColumnString(<<ByteA>>), n),
      ColumnString([k \in 1..n |-> IF k % 2 = 1 THEN ByteB ELSE <<>>]),
      ColumnNullable(ColumnString([k \in 1..n |-> ByteD]), OneHot(n, 1)),
      ColumnNullable(ColumnString([k \in 1..n |-> IF k = n THEN <<>> ELSE ByteD]),
                     OneHot(n, n)),
      ColumnNullable(ColumnString([k \in 1..n |-> ByteE]), Zeros(n)) }

\* The separator columns of concat_ws.
SeparatorColumns(n) ==
    { ColumnConst(ColumnString(<<Comma>>), n),
      ColumnString([k \in 1..n |-> IF k = 1 THEN <<>> ELSE Comma \o Comma]),
      ColumnNullable(ColumnString([k \in 1..n |-> Comma]), OneHot(n, 1)),
      ColumnNullable(ColumnString([k \in 1..n |-> Comma]), OneHot(n, n)) }

InitConcat ==
    \E n \in RowCounts :
        \/ \E k \in 1..MaxArgs :
              \E args \in [1..k -> ConcatColumns(n)] :
                  Ready("concat", args, n)
        \/ \E v \in {0, 1} :
              Ready("concat",
                    <<ColumnConst(ColumnNullable(ColumnString(<<ByteA>>), <<v>>), n)>>, n)
        \/ \E k \in 1..(MaxArgs - 1) :
              \E sep \in SeparatorColumns(n), args \in [1..k -> ConcatColumns(n)] :
                  Ready("concat_ws", <<sep>> \o args, n)

\* FunctionStringConcat::executeImpl
Concat ==
    /\ Callable("concat")
    /\ Finish(FunctionStringConcat(block, arguments, result, input_rows_count),
              "OK", NoChoice)

\* What a store outside argument_columns leaves undetermined: the call
\* goes on as if the store had been in range, or the process dies.
AfterStore(r) == IF r.oob THEN {"OK", "Crash"} ELSE {"OK"}

ConcatWsEnds(r, st) ==
    Finish(IF st = "OK" THEN r ELSE [r EXCEPT !.block = block], st, NoChoice)

ConcatWsOutcome ==
    FunctionStringConcatWs(block, arguments, result, input_rows_count)

\* FunctionStringConcatWs::executeImpl
ConcatWs ==
    /\ Callable("concat_ws")
    /\ \E st \in AfterStore(ConcatWsOutcome) : ConcatWsEnds(ConcatWsOutcome, st)

NextConcat == Concat \/ ConcatWs

SpecConcat == InitConcat /\ [][NextConcat]_vars

----------------------------------------------------------------------------
(* repeat on a batch. *)

\* The row payloads and the counts of repeat.  3 * 715827882 is the
\* largest product of a 3-byte row below INT32_MAX.
RepeatStrings == { <<>>, ByteA, Char3 }
RepeatCounts == { -1, 0, 1, 2, 4, 715827882, 715827883, INT32_MAX }

InitRepeat ==
    \E n \in RowCounts :
        \/ \E strs \in [1..n -> RepeatStrings], cnts \in [1..n -> RepeatCounts] :
              Ready("repeat", <<ColumnString(strs), ColumnInt32(cnts)>>, n)
        \/ \E strs \in [1..n -> RepeatStrings], c \in RepeatCounts :
              Ready("repeat", <<ColumnString(strs), IntLiteral(c, n)>>, n)
        \/ \E s \in RepeatStrings, c \in {0, 2} :
              \/ Ready("repeat", <<ColumnConst(ColumnString(<<s>>), n),
                                   IntFull(c, n)>>, n)
              \/ Ready("repeat", <<ColumnNullable(ColumnString([k \in 1..n |-> s]),
                                                  Zeros(n)), IntFull(c, n)>>, n)
              \/ Ready("repeat", <<ColumnString([k \in 1..n |-> s]),
                                   IntNull(c, n)>>, n)
              \/ Ready("repeat", <<ColumnString([k \in 1..n |-> s]),
                                   ColumnUInt8([k \in 1..n |-> c])>>, n)
              \/ Ready("repeat", <<IntFull(c, n), IntFull(c, n)>>, n)

\* The builds of the program: DCHECK_LE aborts the process in a debug
\* build and is compiled out of a release build.
Builds(r) == IF r.dcheck THEN {"release", "debug"} ELSE {"release"}

RepeatEnds(r, build) ==
    IF build = "debug"
    THEN Finish([r EXCEPT !.block = block], "Abort", NoChoice)
    ELSE Finish(r, r.status, NoChoice)

RepeatOutcome == FunctionStringRepeat(block, arguments, result)

\* FunctionStringRepeat::executeImpl
Repeat ==
    /\ Callable("repeat")
    /\ \E build \in Builds(RepeatOutcome) : RepeatEnds(RepeatOutcome, build)

NextRepeat == Repeat

SpecRepeat == InitRepeat /\ [][NextRepeat]_vars

----------------------------------------------------------------------------
(* null_or_empty on a batch. *)

\* The argument of null_or_empty: a full string column, plain or nullable
\* (a constant argument never reaches executeImpl: line 276).
InitNullOrEmpty ==
    \E n \in RowCounts :
        \E strs \in [1..n -> Strings] :
            \/ Ready("null_or_empty", <<ColumnString(strs)>>, n)
            \/ \E null_map \in [1..n -> {0, 1}] :
                  Ready("null_or_empty",
                        <<ColumnNullable(ColumnString(strs), null_map)>>, n)

\* FunctionNullOrEmpty::executeImpl
NullOrEmpty ==
    /\ Callable("null_or_empty")
    /\ Finish(FunctionNullOrEmpty(block, arguments, result, input_rows_count),
              "OK", NoChoice)

NextNullOrEmpty == NullOrEmpty

SpecNullOrEmpty == InitNullOrEmpty /\ [][NextNullOrEmpty]_vars

----------------------------------------------------------------------------
(* Every function of the file, on the batches above. *)

InitAll == InitSubstring \/ InitConcat \/ InitRepeat \/ InitNullOrEmpty

NextAll ==
    \/ Substring \/ Left \/ Right
    \/ NullOrEmpty
    \/ Concat \/ ConcatWs
    \/ Repeat

SpecAll == InitAll /\ [][NextAll]_vars

----------------------------------------------------------------------------
(* What the properties read off a state. *)

Rows == 0..(input_rows_count - 1)
Done(f) == pc = "done" /\ fn = f

\* Argument k (1-based) of the call: the full column without its wrapper,
\* and whether the argument is null at row i.
ArgFull(k) == convertToFullColumnIfConst(getByPosition(block, arguments[k]))
ArgCol(k) == getNestedColumnPtr(ArgFull(k))
ArgNull(k, i) == ArgFull(k).is_nullable /\ ArgFull(k).null_map[i + 1] # 0
ArgStr(k, i) == RowBytes(ArgCol(k), i)
ArgInt(k, i) == ArgCol(k).data[i + 1]

\* The result column: its payload and its null flag at row i.
ResultCol == getByPosition(block, result)
ResultStr(i) == RowBytes(ResultCol, i)
ResultNull(i) == ResultCol.null_map[i + 1]

\* The byte offsets at which the UTF-8 characters of s start.
RECURSIVE CharStartsFrom(_, _)
CharStartsFrom(s, j) ==
    IF j >= Len(s) THEN <<>>
    ELSE <<j>> \o CharStartsFrom(s, j + get_utf8_byte_length(s[j + 1]))

CharStarts(s) == CharStartsFrom(s, 0)
char_count(s) == Len(CharStarts(s))

\* What FunctionSubstring::vector yields for row i of string argument 1
\* with the given pos and len: the outcome, its payload and its null flag.
SubstringAt(i, pos, len) ==
    SubstringRow(ArgCol(1).chars, ArgCol(1).offsets, pos, len, i, nd)

SubstringStr(i, pos, len) ==
    IF SubstringAt(i, pos, len).kind = "value"
    THEN SpanBytes(ArgCol(1).chars, SubstringAt(i, pos, len), nd)
    ELSE <<>>

SubstringIsNull(i, pos, len) == SubstringAt(i, pos, len).kind = "null"

Bit(b) == IF b THEN 1 ELSE 0

----------------------------------------------------------------------------
(* C1 *)

ThreeChars == Char3 \o Char3 \o Char3

C1Case(i) ==
    /\ ArgStr(1, i) = ThreeChars /\ ArgInt(2, i) = 2 /\ ArgInt(3, i) = 1
    /\ ~ArgNull(1, i) /\ ~ArgNull(2, i) /\ ~ArgNull(3, i)

\* C1: for a row of three 3-byte characters, at every row index of the
\* batch, substring(s, 2, 1) is the 3-byte span of the second character
\* (not null), the index list holding the start of each character.
C1_SecondCharacterAtEveryRow ==
    Done("substring") =>
        \A i \in Rows :
            C1Case(i) =>
                /\ ResultNull(i) = 0
                /\ ResultStr(i) = Char3
                /\ SubstringAt(i, 2, 1).index = CharStarts(ThreeChars)

----------------------------------------------------------------------------
(* C2 *)

\* C2: right(s, n) has the value and the null flag of
\* substring(s, max(-n, -char_count(s)), char_count(s)) on the same row.
C2_RightIsSubstringByCharCount ==
    Done("right") =>
        \A i \in Rows :
            LET s   == ArgStr(1, i)
                pos == Max(-ArgInt(2, i), -char_count(s))
                len == char_count(s)
            IN  /\ ResultStr(i) = SubstringStr(i, pos, len)
                /\ ResultNull(i) = Bit(\/ ArgNull(1, i) \/ ArgNull(2, i)
                                       \/ SubstringIsNull(i, pos, len))

----------------------------------------------------------------------------
(* C3 *)

NumArgs == Len(arguments)

\* The payloads of the arguments k.. of row i that are not null.
RECURSIVE KeptFrom(_, _)
KeptFrom(k, i) ==
    IF k > NumArgs THEN <<>>
    ELSE (IF ArgNull(k, i) THEN <<>> ELSE <<ArgStr(k, i)>>) \o KeptFrom(k + 1, i)

\* C3: for every argument count >= 2, concat_ws ends with a result whose
\* row is null iff the separator is null at that row, and is otherwise the
\* non-null remaining arguments (empty strings among them) joined in
\* argument order with the separator.
C3_ConcatWsJoinsNonNullArguments ==
    Done("concat_ws") /\ NumArgs >= 2 =>
        /\ status = "OK"
        /\ \A i \in Rows :
              /\ ResultNull(i) = Bit(ArgNull(1, i))
              /\ ~ArgNull(1, i) =>
                     ResultStr(i) = Join(KeptFrom(2, i), ArgStr(1, i))

----------------------------------------------------------------------------
(* C4 *)

\* Whether byte_length(str) * n of row i is above the 32-bit signed maximum.
C4Case(i) ==
    /\ checkAndGetColumn("String", ArgFull(1))
    /\ checkAndGetColumn("Int32", ArgFull(2))
    /\ RepeatExceeds(Len(ArgStr(1, i)), ArgInt(2, i))

\* C4: a repeat call with a row whose byte_length(str) * n exceeds the
\* 32-bit signed maximum ends with a runtime error status, and has
\* written no result.
C4_RepeatOverflowIsRuntimeError ==
    Done("repeat") /\ (\E i \in Rows : C4Case(i)) =>
        status = "RuntimeError" /\ ResultCol = ColumnNothing

----------------------------------------------------------------------------
(* C5 *)

\* C5: substring ends every row as NULL, as the empty string or as a byte
\* span lying inside the row, and never reads the character index list
\* outside [0, index_count).
C5_SubstringReadsIndexInRange ==
    Done("substring") =>
        /\ status = "OK"
        /\ ~oob
        /\ \A i \in Rows :
              LET r == SubstringAt(i, ArgInt(2, i), ArgInt(3, i))
              IN  /\ r.kind \in {"null", "empty", "value"}
                  /\ r.kind = "value" =>
                        /\ 0 <= r.byte_pos /\ 0 < r.fixed_len
                        /\ r.byte_pos + r.fixed_len <= r.str_size

----------------------------------------------------------------------------
(* C6 *)

C6Case(i) ==
    /\ ~ArgNull(1, i) /\ ~ArgNull(2, i) /\ ~ArgNull(3, i)
    /\ ArgInt(2, i) = 1
    /\ ArgInt(3, i) = Len(ArgStr(1, i))

\* C6 as stated: for every string s, the empty string included,
\* substring(s, 1, length(s)) is non-null and equal to s.
C6_WholeStringForEveryString ==
    Done("substring") =>
        \A i \in Rows :
            C6Case(i) => ResultNull(i) = 0 /\ ResultStr(i) = ArgStr(1, i)

\* C6 as amended: for every non-empty string s, substring(s, 1, n) with n
\* the byte length of s is non-null and equal to s; for the empty string
\* it is NULL.
C6_WholeStringForNonEmptyString ==
    Done("substring") =>
        \A i \in Rows :
            C6Case(i) =>
                IF ArgStr(1, i) = <<>>
                THEN ResultNull(i) = 1 /\ ResultStr(i) = <<>>
                ELSE ResultNull(i) = 0 /\ ResultStr(i) = ArgStr(1, i)

\* A multi-byte row past row 0 returned whole.
C6_Witness ==
    /\ Done("substring")
    /\ \E i \in Rows :
          /\ i > 0 /\ C6Case(i) /\ ArgStr(1, i) = ByteA \o Char3
          /\ ResultStr(i) = ByteA \o Char3

----------------------------------------------------------------------------
(* C7 *)

\* C7: if pos > byte_length(s) the row is NULL, whatever len is and
\* whether or not s is empty.
C7_PosPastByteLengthIsNull ==
    Done("substring") =>
        \A i \in Rows :
            ArgInt(2, i) > Len(ArgStr(1, i)) =>
                ResultNull(i) = 1 /\ ResultStr(i) = <<>>

\* Rows where the empty-string rule would apply too: len <= 0 on a
\* non-empty row, and an empty row.
C7_Witness ==
    /\ Done("substring")
    /\ \E i, k \in Rows :
          /\ ~ArgNull(1, i) /\ ~ArgNull(2, i) /\ ~ArgNull(3, i)
          /\ ArgInt(2, i) > Len(ArgStr(1, i)) /\ ArgInt(3, i) <= 0
          /\ ArgStr(1, i) # <<>> /\ ArgStr(1, k) = <<>>
          /\ ResultNull(i) = 1 /\ ResultNull(k) = 1

----------------------------------------------------------------------------
(* C8 *)

C8Case(i) ==
    /\ ~ArgNull(1, i) /\ ~ArgNull(2, i) /\ ~ArgNull(3, i)
    /\ ArgInt(2, i) <= Len(ArgStr(1, i))
    /\ \/ ArgInt(3, i) <= 0
       \/ ArgStr(1, i) = <<>>
       \/ ArgInt(2, i) = 0

\* C8: with non-null inputs and pos <= byte_length(s), if len <= 0 or s is
\* empty or pos = 0, the row is the empty string and its null flag is 0.
C8_EmptyStringRule ==
    Done("substring") =>
        \A i \in Rows :
            C8Case(i) => ResultNull(i) = 0 /\ ResultStr(i) = <<>>

\* pos past the character count of a multi-byte row, within its byte length.
C8_Witness ==
    /\ Done("substring")
    /\ \E i \in Rows :
          /\ C8Case(i) /\ ArgInt(3, i) <= 0
          /\ ArgInt(2, i) > char_count(ArgStr(1, i))
          /\ ResultNull(i) = 0 /\ ResultStr(i) = <<>>

----------------------------------------------------------------------------
(* C9 *)

\* C9: left(s, n) has the value and the null flag of substring(s, 1, n) on
\* the same row, null s or null n included.
C9_LeftIsSubstringFromOne ==
    Done("left") =>
        \A i \in Rows :
            /\ ResultStr(i) = SubstringStr(i, 1, ArgInt(2, i))
            /\ ResultNull(i) = Bit(\/ ArgNull(1, i) \/ ArgNull(2, i)
                                   \/ SubstringIsNull(i, 1, ArgInt(2, i)))

\* A batch with a row left cut short and a row whose argument is null.
C9_Witness ==
    /\ Done("left")
    /\ \E i, k \in Rows :
          /\ ~ArgNull(1, i) /\ ArgInt(2, i) = 2
          /\ Len(ArgStr(1, i)) > Len(ResultStr(i)) /\ Len(ResultStr(i)) > 0
          /\ ArgNull(1, k) /\ ResultNull(k) = 1

----------------------------------------------------------------------------
(* C10 *)

\* The payloads of all arguments of row i, in argument order.
ArgPayloads(i) == [k \in 1..NumArgs |-> ArgStr(k, i)]

\* C10: concat with two or more arguments yields, on every row, the
\* payloads of the row's arguments concatenated in argument order, and a
\* null flag that is set iff some argument is null at that row.
C10_ConcatIsBytewiseConcatenation ==
    Done("concat") /\ NumArgs >= 2 =>
        /\ status = "OK" /\ ~oob
        /\ \A i \in Rows :
              /\ ResultStr(i) = Flatten(ArgPayloads(i))
              /\ ResultNull(i) = Bit(\E k \in 1..NumArgs : ArgNull(k, i))

\* Three or more arguments, two of them with different non-empty payloads
\* on a row that is not null, and a row made null by a null argument that
\* has a payload underneath.
C10_Witness ==
    /\ Done("concat") /\ NumArgs >= 3
    /\ \E i, r \in Rows :
          /\ ResultNull(i) = 0
          /\ \E k \in 1..(NumArgs - 1) :
                /\ ArgStr(k, i) # <<>> /\ ArgStr(k + 1, i) # <<>>
                /\ ArgStr(k, i) # ArgStr(k + 1, i)
          /\ ResultStr(i) = Flatten(ArgPayloads(i))
          /\ ResultNull(r) = 1
          /\ \E k \in 1..NumArgs : ArgNull(k, r) /\ ArgStr(k, r) # <<>>
          /\ ResultStr(r) = Flatten(ArgPayloads(r))

----------------------------------------------------------------------------
(* C11 *)

\* The result column with a constant result written out row by row.
ResultFull == convertToFullColumnIfConst(ResultCol)

\* C11: concat with one argument a yields a nullable column with the row
\* values and the null flags of a: a itself when a is nullable, a under an
\* all-zero null map otherwise.
C11_ConcatOfOneArgumentIsTheArgument ==
    Done("concat") /\ NumArgs = 1 =>
        /\ status = "OK"
        /\ ResultCol.is_nullable
        /\ getByPosition(block, arguments[1]).is_nullable =>
               ResultCol = getByPosition(block, arguments[1])
        /\ ~getByPosition(block, arguments[1]).is_nullable =>
               /\ getNestedColumnPtr(ResultCol) = getByPosition(block, arguments[1])
               /\ ResultFull.null_map = Zeros(input_rows_count)
        /\ \A i \in Rows :
              /\ RowBytes(ResultFull, i) = ArgStr(1, i)
              /\ ResultFull.null_map[i + 1] = Bit(ArgNull(1, i))

\* A column that is not nullable, with a non-empty row, comes back wrapped.
C11_Witness ==
    /\ Done("concat") /\ NumArgs = 1 /\ status = "OK"
    /\ ~getByPosition(block, arguments[1]).is_nullable
    /\ ResultCol.is_nullable
    /\ \E i \in Rows : RowBytes(ResultFull, i) # <<>> /\ ResultFull.null_map[i + 1] = 0

----------------------------------------------------------------------------
(* C12 *)

\* C12: null_or_empty yields a plain UInt8 column (not nullable) whose row
\* is 1 iff the input row is null or its payload is empty, and 0 otherwise.
C12_NullOrEmptyIsOneIffNullOrEmpty ==
    Done("null_or_empty") =>
        /\ status = "OK"
        /\ ResultCol.type = "UInt8" /\ ~ResultCol.is_nullable
        /\ Len(ResultCol.data) = input_rows_count
        /\ \A i \in Rows :
              ResultCol.data[i + 1] = Bit(ArgNull(1, i) \/ ArgStr(1, i) = <<>>)

\* A null row over a non-empty payload next to a non-null non-empty row.
C12_Witness ==
    /\ Done("null_or_empty")
    /\ \E i, k \in Rows :
          /\ ArgNull(1, i) /\ ArgStr(1, i) # <<>> /\ ResultCol.data[i + 1] = 1
          /\ ~ArgNull(1, k) /\ ArgStr(1, k) # <<>> /\ ResultCol.data[k + 1] = 0

----------------------------------------------------------------------------
(* C13 *)

\* s written n times back to back.
RECURSIVE Copies(_, _)
Copies(s, n) == IF n <= 0 \/ s = <<>> THEN <<>> ELSE s \o Copies(s, n - 1)

\* Both arguments of repeat have the types executeImpl accepts.
RepeatTypesMatch ==
    /\ checkAndGetColumn("String", ArgFull(1))
    /\ checkAndGetColumn("Int32", ArgFull(2))

\* Row i of a repeat call whose byte_length(str) * n is within the range.
C13Case(i) ==
    RepeatTypesMatch /\ ~RepeatExceeds(Len(ArgStr(1, i)), ArgInt(2, i))

----------------------------------------------------------------------------
(* C14 *)

\* C14: a repeat call whose first argument is not a plain string column or
\* whose second is not an Int32 column (constants expanded) returns a
\* RuntimeError whose message is "not support repeat" and leaves the result
\* position unwritten; it returns OK only when both types match.
C14_RepeatTypeMismatchIsRuntimeError ==
    Done("repeat") =>
        /\ ~RepeatTypesMatch =>
               /\ status = "RuntimeError"
               /\ message = "not support repeat"
               /\ ResultCol = ColumnNothing
        /\ status = "OK" => RepeatTypesMatch

\* A count column that is not an Int32 column under a plain string column.
C14_Witness ==
    /\ Done("repeat")
    /\ checkAndGetColumn("String", ArgFull(1))
    /\ ArgFull(2).type = "UInt8"
    /\ status = "RuntimeError" /\ message = "not support repeat"
    /\ ResultCol = ColumnNothing

----------------------------------------------------------------------------
(* C15 *)

\* An invocation of one of the functions that build a string buffer has
\* returned OK.
C15Case ==
    /\ pc \in {"done", "again"} /\ status = "OK"
    /\ \/ fn \in {"substring", "left", "right", "concat_ws", "repeat"}
       \/ fn = "concat" /\ NumArgs >= 2

\* A repeat result with a row too long to be written out has its rows in
\* runs only.
RunsOnly == fn = "repeat" /\ ResultCol.offsets = <<>> /\ input_rows_count > 0

RowSpan(i) == OffsetAt(ResultCol.offsets, i) - OffsetAt(ResultCol.offsets, i - 1)

\* offsets has N entries, is non-decreasing and ends at len(data); every
\* row's span ends with the terminator; the null map, if any, has N entries.
BufferWellFormed ==
    /\ Len(ResultCol.offsets) = input_rows_count
    /\ \A i \in Rows :
          /\ RowSpan(i) >= 1
          /\ ResultCol.chars[OffsetAt(ResultCol.offsets, i)] = 0
    /\ OffsetAt(ResultCol.offsets, input_rows_count - 1) = Len(ResultCol.chars)
    /\ ResultCol.is_nullable => Len(ResultCol.null_map) = input_rows_count

SomeArgNull(i) == \E k \in 1..NumArgs : ArgNull(k, i)

\* C15 as stated: after a successful invocation the output buffer is well
\* formed, and every row the function has given a NULL result holds only
\* the terminator.
C15_NullRowsHoldOnlyTheTerminator ==
    C15Case /\ ~RunsOnly =>
        /\ BufferWellFormed
        /\ \A i \in Rows :
              ResultCol.is_nullable /\ ResultNull(i) = 1 => RowSpan(i) = 1

\* C15, amended: after a successful invocation the output buffer is well
\* formed (a repeat result kept as runs has N runs); a row holds only the
\* terminator when substring, left or right has made it NULL with no
\* argument null at that row, and when concat_ws has made it NULL.
C15_OutputBufferIsWellFormed ==
    C15Case =>
        /\ RunsOnly => Len(ResultCol.runs) = input_rows_count
        /\ ~RunsOnly =>
              /\ BufferWellFormed
              /\ \A i \in Rows :
                    /\ fn \in {"substring", "left", "right"}
                         /\ ResultNull(i) = 1 /\ ~SomeArgNull(i) => RowSpan(i) = 1
                    /\ fn = "concat_ws" /\ ResultNull(i) = 1 => RowSpan(i) = 1

\* substring on two rows: one NULL because s is null, with the payload the
\* resolver took from under the null; one NULL by the resolver, with the
\* terminator only.
C15_Witness ==
    /\ C15Case /\ fn = "substring"
    /\ \E i, k \in Rows :
          /\ ArgNull(1, i) /\ ResultNull(i) = 1 /\ RowSpan(i) > 1
          /\ ~SomeArgNull(k) /\ ResultNull(k) = 1 /\ RowSpan(k) = 1

----------------------------------------------------------------------------
(* C16 *)

\* C16: an invocation leaves every input column as it was, and a second
\* invocation on the same batch with the same positions returns, and
\* leaves at the result position a column equal to the first one's (data,
\* offsets and null bitmap).
C16_SecondRunIsByteIdentical ==
    [][/\ \A k \in 1..NumArgs :
             getByPosition(block', arguments[k]) = getByPosition(block, arguments[k])
       /\ pc = "done" =>
             /\ status' \in {"OK", "RuntimeError"}
             /\ getByPosition(block', result) = getByPosition(block, result)]_vars

----------------------------------------------------------------------------
(* C17 *)

\* The decision table over the complete character index of s, for pos > 0
\* and len > 0: NULL past the last character, else the bytes from the
\* start of character pos to the start of character pos + len, or to the
\* end of s when there is no such character.
TableIsNull(s, pos) == pos > char_count(s)

TableEnd(s, pos, len) ==
    IF len <= char_count(s) - pos THEN CharStarts(s)[pos + len] ELSE Len(s)

TableStr(s, pos, len) == SubSeq(s, CharStarts(s)[pos] + 1, TableEnd(s, pos, len))

C17Case(i) ==
    /\ ~ArgNull(1, i) /\ ~ArgNull(2, i) /\ ~ArgNull(3, i)
    /\ ArgInt(2, i) > 0 /\ ArgInt(3, i) > 0

\* C17: for pos > 0 and len > 0 (pos + len above the 32-bit maximum
\* included), the row substring produces with its early-exit scan is the
\* row of the decision table over the complete character index.
C17_EarlyExitScanIsTheDecisionTable ==
    Done("substring") =>
        \A i \in Rows :
            C17Case(i) =>
                IF TableIsNull(ArgStr(1, i), ArgInt(2, i))
                THEN ResultNull(i) = 1
                ELSE /\ ResultNull(i) = 0
                     /\ ResultStr(i) = TableStr(ArgStr(1, i), ArgInt(2, i), ArgInt(3, i))

----------------------------------------------------------------------------
(* C18 *)

\* C18: in substring, left and right, an output row is NULL whenever one
\* of the call's arguments (s, pos, len; s, n) is null at that row.
C18_NullArgumentMakesTheRowNull ==
    Done("substring") \/ Done("left") \/ Done("right") =>
        \A i \in Rows : SomeArgNull(i) => ResultNull(i) = 1

----------------------------------------------------------------------------
(* C19 *)

\* The number of columns an invocation of fn appends to the block.
Appended == IF fn = "left" THEN 1 ELSE IF fn = "right" THEN 2 ELSE 0

\* The byte length of every row of s, and right's computed position.
ByteLengths == [k \in 1..input_rows_count |-> Len(ArgStr(1, k - 1))]
RightPositions ==
    [k \in 1..input_rows_count |-> Max(-ArgInt(2, k - 1), -ByteLengths[k])]

\* C19: an invocation that returns changes the block at the result
\* position and by appending at the end: left one column of ones, right
\* the computed position and the byte length of every row, the others
\* nothing; every other column keeps its position and content, and a
\* repeat that fails leaves the block as it was.
C19_OnlyResultAndHelperColumnsChange ==
    [][/\ status' \in {"OK", "RuntimeError"} => Len(block') = Len(block) + Appended
       /\ \A p \in 0..(Len(block) - 1) :
             p # result => getByPosition(block', p) = getByPosition(block, p)
       /\ fn = "left" =>
             getByPosition(block', Len(block)) = ColumnInt32(Ones(input_rows_count))
       /\ fn = "right" =>
             /\ getByPosition(block', Len(block)) = ColumnInt32(RightPositions)
             /\ getByPosition(block', Len(block) + 1) = ColumnInt32(ByteLengths)
       /\ fn = "repeat" /\ status' # "OK" => block' = block]_vars

\* right has returned on a row whose position was clamped to the byte
\* length, the two helper columns behind the result.
C19_Witness ==
    /\ Done("right") /\ Len(block) = NumArgs + 3
    /\ \E i \in Rows :
          /\ ArgInt(2, i) > Len(ArgStr(1, i)) /\ Len(ArgStr(1, i)) > 0
          /\ getByPosition(block, result + 1).data[i + 1] = -Len(ArgStr(1, i))
          /\ getByPosition(block, result + 2).data[i + 1] = Len(ArgStr(1, i))

----------------------------------------------------------------------------
(* C20 *)

\* C20: for every argument count k >= 2 of concat_ws, every store into
\* argument_columns is inside the array.
C20_ConcatWsStoresInsideItsArray ==
    pc \in {"done", "again"} /\ fn = "concat_ws" /\ NumArgs >= 2 => ~oob

====
